---- MODULE Spec2Model ----
(***************************************************************************)
(* The S3 retrieval client (src/network/client.ts) together with the       *)
(* download registry it drives (DownloadManager) and the credential lookup *)
(* it awaits.  JavaScript runs one synchronous segment at a time: every    *)
(* action below is one such segment, from an invocation or a resumed await *)
(* up to the next await.                                                   *)
(***************************************************************************)
EXTENDS Integers, Sequences, FiniteSets, TLC

VARIABLES
    s3Client,     \* Client.s3Client: Null or the connection handle
    settings,     \* the object Client.settings refers to
    pluginState,  \* the owner's lifecycle state (plugin.setState)
    downloads,    \* DownloadManager's records, in insertion order
    hist,         \* per identity, the states its record has entered, in order
    tasks,        \* every operation invoked so far, with its position
    resolver      \* the ImageResolver: its two maps and the tree it last resolved

vars == <<s3Client, settings, pluginState, downloads, hist, tasks, resolver>>

(***************************************************************************)
(* Bounds and input sets                                                   *)
(***************************************************************************)
\* operations (initialize, getObject, getLatestObjectVersion, sign) invoked
MaxOps == 3
\* entries in one list-object-versions response
MaxListLen == 2
\* image elements in one rendered tree
MaxImgs == 2
\* resolveHtmlElement calls on one resolver
MaxResolves == 2
\* object keys as character sequences: "a" and "ab" share the prefix "a"
Keys == {<<"a">>, <<"a", "b">>}
Versions == {"v1", "v2"}
Ids == Keys \X Versions
NoKey == <<>>

AWS_PROFILE_NAME_NONE == "none"
\* the settings initializeS3Client is called with: static keys (no profile, or
\* the "none" profile), a named profile, and settings that are not ready
Configs ==
    {[ready |-> TRUE, profile |-> ""], [ready |-> TRUE, profile |-> AWS_PROFILE_NAME_NONE],
     [ready |-> TRUE, profile |-> "p"], [ready |-> FALSE, profile |-> "p"]}

\* the two falsy values of s3Client: never assigned, and assigned null
Undefined == [cfg |-> -1, cred |-> -1]
Null == [cfg |-> 0, cred |-> 0]
NoResp == [present |-> FALSE, Versions |-> <<>>]

IsPrefix(p, s) == Len(p) <= Len(s) /\ SubSeq(s, 1, Len(p)) = p

\* the version id of the i-th listed revision: the backend never lists the same
\* revision twice
ListedVersion(i) == <<"v1", "v2", "v3", "v4", "v5">>[i]

\* the responses the backend can give to ListObjectVersions(Prefix): no Versions
\* member at all, or up to MaxListLen entries whose keys start with the prefix
Listings(prefix) ==
    {NoResp} \cup
    {[present |-> TRUE,
      Versions |-> [i \in 1..n |-> [Key |-> ks[i], VersionId |-> ListedVersion(i)]]] :
        <<n, ks>> \in UNION {{n} \X [1..n -> {k \in Keys : IsPrefix(prefix, k)}] : n \in 0..MaxListLen}}

(***************************************************************************)
(* DownloadManager: the registry keyed by (object key, version id)         *)
(***************************************************************************)
Matches(r, k, v) == r.key = k /\ r.ver = v

HasRecord(reg, k, v) == \E i \in DOMAIN reg : Matches(reg[i], k, v)

getState(reg, k, v) ==
    IF HasRecord(reg, k, v)
    THEN LET i == CHOOSE i \in DOMAIN reg :
                    /\ Matches(reg[i], k, v)
                    /\ \A j \in 1..(i - 1) : ~Matches(reg[j], k, v)
         IN reg[i].state
    ELSE "ABSENT"

Transition(reg, k, v, from, to) ==
    [i \in DOMAIN reg |->
        IF Matches(reg[i], k, v) /\ reg[i].state \in from
        THEN [reg[i] EXCEPT !.state = to]
        ELSE reg[i]]

addNewDownload_Dup(reg, k, v) ==
    Append(reg, [key |-> k, ver |-> v, state |-> "QUEUED"])

addNewDownload(reg, k, v) ==
    IF HasRecord(reg, k, v)
    THEN reg
    ELSE Append(reg, [key |-> k, ver |-> v, state |-> "QUEUED"])

setRunningState_Any(reg, k, v) ==
    Transition(reg, k, v, {"QUEUED", "RUNNING", "COMPLETED", "ERROR"}, "RUNNING")

setRunningState(reg, k, v) == Transition(reg, k, v, {"QUEUED"}, "RUNNING")

setCompletedState(reg, k, v) == Transition(reg, k, v, {"RUNNING"}, "COMPLETED")

setErrorState(reg, k, v) == Transition(reg, k, v, {"QUEUED", "RUNNING"}, "ERROR")

\* the history after the registry became reg
Track(reg) ==
    [id \in Ids |->
        IF getState(reg, id[1], id[2]) # getState(downloads, id[1], id[2])
        THEN Append(hist[id], getState(reg, id[1], id[2]))
        ELSE hist[id]]

(***************************************************************************)
(* Tasks                                                                   *)
(***************************************************************************)
NewTask(kind, pc, k, v) ==
    [kind |-> kind, pc |-> pc, key |-> k, ver |-> v,
     fresh |-> FALSE,    \* getObject: no record existed when it registered
     sent |-> FALSE,     \* a remote request was issued
     resp |-> NoResp,    \* the list response received
     result |-> "none",  \* what the caller got
     rev |-> "",         \* getObject: the revision whose bytes the response carries
     why |-> ""]

CanInvoke == Len(tasks) < MaxOps

TaskIds == DOMAIN tasks

\* the guard `if (!this.s3Client)` of the three operations
NotInitialized_StrictNull == s3Client = Null

NotInitialized == s3Client \in {Undefined, Null}

Set(t, f) == tasks' = [tasks EXCEPT ![t] = f]

(***************************************************************************)
(* Client.initializeS3Client / createS3Client                              *)
(***************************************************************************)
UsesProfile(s) == s.profile # "" /\ s.profile # AWS_PROFILE_NAME_NONE

\* initializeS3Client, and createS3Client up to its first await
initializeS3Client(ready, profile) ==
    /\ CanInvoke
    /\ LET g == Len(tasks) + 1
           s == [gen |-> g, ready |-> ready, profile |-> profile]
       IN /\ settings' = s
          /\ IF s.ready
             THEN IF UsesProfile(s)
                  THEN /\ s3Client' = s3Client
                       /\ tasks' = Append(tasks, NewTask("create", "awaitCreds", NoKey, "-"))
                  ELSE /\ s3Client' = [cfg |-> s.gen, cred |-> s.gen]
                       /\ tasks' = Append(tasks,
                              [NewTask("create", "done", NoKey, "-") EXCEPT !.result = "static"])
             ELSE /\ s3Client' = Null
                  /\ tasks' = Append(tasks,
                         [NewTask("create", "done", NoKey, "-") EXCEPT !.result = "notready"])
    /\ UNCHANGED <<resolver, pluginState, downloads, hist>>

\* createS3Client resumed with the credentials of the profile
CredentialsFound(t) ==
    /\ tasks[t].kind = "create" /\ tasks[t].pc = "awaitCreds"
    /\ s3Client' = [cfg |-> settings.gen, cred |-> t]
    /\ Set(t, [tasks[t] EXCEPT !.pc = "done", !.result = "creds"])
    /\ UNCHANGED <<resolver, settings, pluginState, downloads, hist>>

\* createS3Client resumed with no credentials, up to await saveSettings()
CredentialsMissing(t) ==
    /\ tasks[t].kind = "create" /\ tasks[t].pc = "awaitCreds"
    /\ pluginState' = "ERROR"
    /\ settings' = [settings EXCEPT !.profile = ""]
    /\ Set(t, [tasks[t] EXCEPT !.pc = "awaitSave", !.result = "nocreds"])
    /\ UNCHANGED <<resolver, s3Client, downloads, hist>>

\* createS3Client resumed after saveSettings()
SettingsSaved(t) ==
    /\ tasks[t].kind = "create" /\ tasks[t].pc = "awaitSave"
    /\ s3Client' = Null
    /\ Set(t, [tasks[t] EXCEPT !.pc = "done"])
    /\ UNCHANGED <<resolver, settings, pluginState, downloads, hist>>

(***************************************************************************)
(* Client.getObject                                                        *)
(***************************************************************************)
\* the catch block of getObject
CatchGetObject_NoMark(reg, k, v) == reg

CatchGetObject_WholeKey(reg, k, v) ==
    Transition(reg, k, CHOOSE w \in Versions : w # v, {"QUEUED", "RUNNING"}, "ERROR")

CatchGetObject(reg, k, v) == setErrorState(reg, k, v)

\* the input of the GetObjectCommand
GetObjectCommandInput(k, v) == [Bucket |-> "bucket", Key |-> k]

\* the store holds every revision in Versions of every key, and the current
\* one is the revision it lists first
CurrentRevision(k) == ListedVersion(1)

\* the revision the store answers a get-object request with: the one the
\* request names, else the current one
Served(input) ==
    IF "VersionId" \in DOMAIN input THEN input.VersionId ELSE CurrentRevision(input.Key)

\* getObject up to await s3Client.send(command)
getObject(k, v) ==
    /\ CanInvoke
    /\ IF NotInitialized
       THEN /\ tasks' = Append(tasks,
                   [NewTask("getObject", "threw", k, v) EXCEPT
                       !.result = "threw", !.why = "precond"])
            /\ UNCHANGED <<resolver, downloads, hist>>
       ELSE /\ downloads' = addNewDownload(downloads, k, v)
            /\ hist' = Track(downloads')
            /\ tasks' = Append(tasks,
                   [NewTask("getObject", "sent", k, v) EXCEPT
                       !.sent = TRUE, !.fresh = ~HasRecord(downloads, k, v)])
    /\ UNCHANGED <<resolver, s3Client, settings, pluginState>>

\* send resolved with a Body: RUNNING, and the stream goes to the caller
GetObjectBody(t) ==
    /\ tasks[t].kind = "getObject" /\ tasks[t].pc = "sent"
    /\ downloads' = setRunningState(downloads, tasks[t].key, tasks[t].ver)
    /\ hist' = Track(downloads')
    /\ Set(t, [tasks[t] EXCEPT
                 !.pc = "streaming", !.result = "stream",
                 !.rev = Served(GetObjectCommandInput(tasks[t].key, tasks[t].ver))])
    /\ UNCHANGED <<resolver, s3Client, settings, pluginState>>

\* send resolved without a Body: the else branch throws into the catch
GetObjectNoBody(t) ==
    /\ tasks[t].kind = "getObject" /\ tasks[t].pc = "sent"
    /\ downloads' = CatchGetObject(downloads, tasks[t].key, tasks[t].ver)
    /\ hist' = Track(downloads')
    /\ Set(t, [tasks[t] EXCEPT !.pc = "threw", !.result = "threw", !.why = "nobody"])
    /\ UNCHANGED <<resolver, s3Client, settings, pluginState>>

\* send rejected
GetObjectSendFails(t) ==
    /\ tasks[t].kind = "getObject" /\ tasks[t].pc = "sent"
    /\ downloads' = CatchGetObject(downloads, tasks[t].key, tasks[t].ver)
    /\ hist' = Track(downloads')
    /\ Set(t, [tasks[t] EXCEPT !.pc = "threw", !.result = "threw", !.why = "sendfail"])
    /\ UNCHANGED <<resolver, s3Client, settings, pluginState>>

\* the "end" handler of lines 178-180
OnEnd_Error(reg, k, v) == setErrorState(reg, k, v)

OnEnd(reg, k, v) == setCompletedState(reg, k, v)

\* the consumer read every chunk and reader.read() gave done: push(null), "end"
\* fires, the handler of line 178 runs
StreamEnd(t) ==
    /\ tasks[t].kind = "getObject" /\ tasks[t].pc = "streaming"
    /\ downloads' = OnEnd(downloads, tasks[t].key, tasks[t].ver)
    /\ hist' = Track(downloads')
    /\ Set(t, [tasks[t] EXCEPT !.pc = "ended"])
    /\ UNCHANGED <<resolver, s3Client, settings, pluginState>>

\* reader.read() rejected at some chunk inside the async read(): the promise of
\* read() rejects, no handler is registered for it, the stream never ends
StreamFail(t) ==
    /\ tasks[t].kind = "getObject" /\ tasks[t].pc = "streaming"
    /\ Set(t, [tasks[t] EXCEPT !.pc = "streamErr"])
    /\ UNCHANGED <<resolver, s3Client, settings, pluginState, downloads, hist>>

(***************************************************************************)
(* Client.getLatestObjectVersion / getObjectMetadata                       *)
(***************************************************************************)
\* the filter of line 106
KeepVersion_Prefix(entry, objectKey) == IsPrefix(objectKey, entry.Key)

KeepVersion(entry, objectKey) == entry.Key = objectKey

\* lines 104-120: the value returned for a response
LatestOf(response, objectKey) ==
    LET exactFilteredVersion ==
            IF response.present
            THEN SelectSeq(response.Versions, LAMBDA e : KeepVersion(e, objectKey))
            ELSE <<>>
    IN IF Len(exactFilteredVersion) > 0
       THEN exactFilteredVersion[1].VersionId
       ELSE "absent"

\* the catch block of getLatestObjectVersion: what the caller gets
CatchList_Swallow == "absent"

CatchList == "threw"

\* getLatestObjectVersion up to await s3Client.send(command) in getObjectMetadata
getLatestObjectVersion(k) ==
    /\ CanInvoke
    /\ IF NotInitialized
       THEN tasks' = Append(tasks,
                [NewTask("getLatest", "threw", k, "-") EXCEPT
                    !.result = CatchList, !.why = "precond"])
       ELSE tasks' = Append(tasks,
                [NewTask("getLatest", "listing", k, "-") EXCEPT !.sent = TRUE])
    /\ UNCHANGED <<resolver, s3Client, settings, pluginState, downloads, hist>>

\* the list call resolved
ListResponds(t, response) ==
    /\ tasks[t].kind = "getLatest" /\ tasks[t].pc = "listing"
    /\ Set(t, [tasks[t] EXCEPT !.pc = "returned", !.resp = response,
                               !.result = LatestOf(response, tasks[t].key)])
    /\ UNCHANGED <<resolver, s3Client, settings, pluginState, downloads, hist>>

\* the list call rejected
ListFails(t) ==
    /\ tasks[t].kind = "getLatest" /\ tasks[t].pc = "listing"
    /\ Set(t, [tasks[t] EXCEPT !.pc = "threw", !.result = CatchList, !.why = "sendfail"])
    /\ UNCHANGED <<resolver, s3Client, settings, pluginState, downloads, hist>>

(***************************************************************************)
(* Client.getSignedUrlForObject                                            *)
(***************************************************************************)
\* getSignedUrlForObject up to await getSignedUrl(...)
getSignedUrlForObject(k) ==
    /\ CanInvoke
    /\ IF NotInitialized
       THEN tasks' = Append(tasks,
                [NewTask("sign", "threw", k, "-") EXCEPT
                    !.result = "threw", !.why = "precond"])
       ELSE tasks' = Append(tasks,
                [NewTask("sign", "signing", k, "-") EXCEPT !.sent = TRUE])
    /\ UNCHANGED <<resolver, s3Client, settings, pluginState, downloads, hist>>

SignResolves(t) ==
    /\ tasks[t].kind = "sign" /\ tasks[t].pc = "signing"
    /\ Set(t, [tasks[t] EXCEPT !.pc = "returned", !.result = "url"])
    /\ UNCHANGED <<resolver, s3Client, settings, pluginState, downloads, hist>>

\* the catch block of getSignedUrlForObject: what the caller gets
CatchSign_Swallow == "url"

CatchSign == "threw"

SignFails(t) ==
    /\ tasks[t].kind = "sign" /\ tasks[t].pc = "signing"
    /\ Set(t, [tasks[t] EXCEPT !.pc = "threw", !.result = CatchSign, !.why = "sendfail"])
    /\ UNCHANGED <<resolver, s3Client, settings, pluginState, downloads, hist>>

(***************************************************************************)
(* ImageResolver.resolveHtmlElement                                        *)
(***************************************************************************)
\* strings are sequences of tokens; the two markers and the splitter are one
\* token each
S3_LINK_PREFIX == <<"s3">>
S3_SIGNED_LINK_PREFIX == <<"s3-sign">>
S3_LINK_SPLITTER == "://"

\* parts[n] of an array shorter than n
UndefinedPart == <<"undefined">>

\* the src values of the image elements of a tree: direct and signed links, a
\* marker alone, a marker with an empty key, a second splitter, other references
Srcs ==
    {<<"s3", "://", "k">>, <<"s3", "://", "j">>, <<"s3-sign", "://", "k">>,
     <<"s3">>, <<"s3", "://">>, <<"s3", "://", "k", "://", "j">>, <<"http", "://", "k">>}

\* the image elements of a tree in document order, each by its src
Trees == UNION {[1..n -> Srcs] : n \in 0..MaxImgs}

\* String.prototype.split(S3_LINK_SPLITTER)
RECURSIVE Split(_)
Split(str) ==
    LET at == {i \in 1..Len(str) : str[i] = S3_LINK_SPLITTER}
    IN IF at = {}
       THEN <<str>>
       ELSE LET i == CHOOSE i \in at : \A j \in at : i <= j
            IN <<SubSeq(str, 1, i - 1)>> \o Split(SubSeq(str, i + 1, Len(str)))

s3LinkLeftPart == 1
s3LinkRightPart == 2

\* parts[n], 1-based
Part(parts, n) == IF n <= Len(parts) THEN parts[n] ELSE UndefinedPart

\* Resolver.addObjectKey / addSignObjectKey on one map: push the element onto the
\* key's array, creating the entry if the key is new
addKey(map, key, el) ==
    IF \E i \in DOMAIN map : map[i].key = key
    THEN [i \in DOMAIN map |->
            IF map[i].key = key THEN [map[i] EXCEPT !.els = Append(@, el)] ELSE map[i]]
    ELSE Append(map, [key |-> key, els |-> <<el>>])

\* Resolver.clearObjectKeys / clearSignObjectKeys
clearKeys(map) == <<>>

\* lines 30-31: the maps the pass starts from
Cleared_Keep(maps) == maps

Cleared(maps) ==
    [objectKeys |-> clearKeys(maps.objectKeys), signObjectKeys |-> clearKeys(maps.signObjectKeys)]

\* lines 45-66: the body of forEach for one image element
AfterElement_Both(maps, el, src) ==
    LET parts == Split(src)
    IN IF Part(parts, s3LinkLeftPart) = S3_LINK_PREFIX
       THEN [objectKeys |-> addKey(maps.objectKeys, Part(parts, s3LinkRightPart), el),
             signObjectKeys |-> addKey(maps.signObjectKeys, Part(parts, s3LinkRightPart), el)]
       ELSE IF Part(parts, s3LinkLeftPart) = S3_SIGNED_LINK_PREFIX
            THEN [maps EXCEPT !.signObjectKeys = addKey(@, Part(parts, s3LinkRightPart), el)]
            ELSE maps

AfterElement(maps, el, src) ==
    LET parts == Split(src)
    IN IF Part(parts, s3LinkLeftPart) = S3_LINK_PREFIX
       THEN [maps EXCEPT !.objectKeys = addKey(@, Part(parts, s3LinkRightPart), el)]
       ELSE IF Part(parts, s3LinkLeftPart) = S3_SIGNED_LINK_PREFIX
            THEN [maps EXCEPT !.signObjectKeys = addKey(@, Part(parts, s3LinkRightPart), el)]
            ELSE maps

\* imageElements.forEach over the first n elements of the tree of call c
RECURSIVE ForEach(_, _, _, _)
ForEach(maps, tree, c, n) ==
    IF n = 0
    THEN maps
    ELSE AfterElement(ForEach(maps, tree, c, n - 1), <<c, n>>, tree[n])

\* one call of resolveHtmlElement; an element is the pair <<call, position>>
resolveHtmlElement(tree) ==
    /\ resolver.calls < MaxResolves
    /\ LET c == resolver.calls + 1
           maps == Cleared([objectKeys |-> resolver.objectKeys,
                            signObjectKeys |-> resolver.signObjectKeys])
           out == IF Len(tree) = 0 THEN maps ELSE ForEach(maps, tree, c, Len(tree))
       IN resolver' = [calls |-> c, tree |-> tree,
                       objectKeys |-> out.objectKeys,
                       signObjectKeys |-> out.signObjectKeys,
                       hadEntries |-> resolver.objectKeys # <<>> \/ resolver.signObjectKeys # <<>>]
    /\ UNCHANGED <<s3Client, settings, pluginState, downloads, hist, tasks>>

(***************************************************************************)
(* Specification                                                           *)
(***************************************************************************)
Init ==
    /\ s3Client = Undefined
    /\ settings = [gen |-> 0, ready |-> FALSE, profile |-> ""]
    /\ pluginState = "INIT"
    /\ downloads = <<>>
    /\ hist = [id \in Ids |-> <<>>]
    /\ tasks = <<>>
    /\ resolver = [calls |-> 0, tree |-> <<>>, objectKeys |-> <<>>, signObjectKeys |-> <<>>,
                   hadEntries |-> FALSE]

Next ==
    \/ \E c \in Configs : initializeS3Client(c.ready, c.profile)
    \/ \E t \in TaskIds : CredentialsFound(t)
    \/ \E t \in TaskIds : CredentialsMissing(t)
    \/ \E t \in TaskIds : SettingsSaved(t)
    \/ \E k \in Keys, v \in Versions : getObject(k, v)
    \/ \E t \in TaskIds : GetObjectBody(t)
    \/ \E t \in TaskIds : GetObjectNoBody(t)
    \/ \E t \in TaskIds : GetObjectSendFails(t)
    \/ \E t \in TaskIds : StreamEnd(t)
    \/ \E t \in TaskIds : StreamFail(t)
    \/ \E k \in Keys : getLatestObjectVersion(k)
    \/ \E t \in {u \in TaskIds : tasks[u].pc = "listing"} :
            \E r \in Listings(tasks[t].key) : ListResponds(t, r)
    \/ \E t \in TaskIds : ListFails(t)
    \/ \E k \in Keys : getSignedUrlForObject(k)
    \/ \E t \in TaskIds : SignResolves(t)
    \/ \E t \in TaskIds : SignFails(t)

Spec == Init /\ [][Next]_vars

(***************************************************************************)
(* Direct calls of the registry's operations by another caller             *)
(***************************************************************************)
CallAddNewDownload(k, v) ==
    /\ CanInvoke
    /\ downloads' = addNewDownload(downloads, k, v)
    /\ hist' = Track(downloads')
    /\ tasks' = Append(tasks, [NewTask("registry", "done", k, v) EXCEPT !.why = "addNewDownload"])
    /\ UNCHANGED <<resolver, s3Client, settings, pluginState>>

CallSetRunningState(k, v) ==
    /\ CanInvoke
    /\ downloads' = setRunningState(downloads, k, v)
    /\ hist' = Track(downloads')
    /\ tasks' = Append(tasks, [NewTask("registry", "done", k, v) EXCEPT !.why = "setRunningState"])
    /\ UNCHANGED <<resolver, s3Client, settings, pluginState>>

CallSetCompletedState(k, v) ==
    /\ CanInvoke
    /\ downloads' = setCompletedState(downloads, k, v)
    /\ hist' = Track(downloads')
    /\ tasks' = Append(tasks, [NewTask("registry", "done", k, v) EXCEPT !.why = "setCompletedState"])
    /\ UNCHANGED <<resolver, s3Client, settings, pluginState>>

CallSetErrorState(k, v) ==
    /\ CanInvoke
    /\ downloads' = setErrorState(downloads, k, v)
    /\ hist' = Track(downloads')
    /\ tasks' = Append(tasks, [NewTask("registry", "done", k, v) EXCEPT !.why = "setErrorState"])
    /\ UNCHANGED <<resolver, s3Client, settings, pluginState>>

NextDM ==
    \/ \E c \in Configs : initializeS3Client(c.ready, c.profile)
    \/ \E t \in TaskIds : CredentialsFound(t)
    \/ \E t \in TaskIds : CredentialsMissing(t)
    \/ \E t \in TaskIds : SettingsSaved(t)
    \/ \E k \in Keys, v \in Versions : getObject(k, v)
    \/ \E t \in TaskIds : GetObjectBody(t)
    \/ \E t \in TaskIds : GetObjectNoBody(t)
    \/ \E t \in TaskIds : GetObjectSendFails(t)
    \/ \E t \in TaskIds : StreamEnd(t)
    \/ \E t \in TaskIds : StreamFail(t)
    \/ \E k \in Keys, v \in Versions : CallAddNewDownload(k, v)
    \/ \E k \in Keys, v \in Versions : CallSetRunningState(k, v)
    \/ \E k \in Keys, v \in Versions : CallSetCompletedState(k, v)
    \/ \E k \in Keys, v \in Versions : CallSetErrorState(k, v)

\* initialization and getObject calls interleaved with arbitrary registry calls
SpecDM == Init /\ [][NextDM]_vars

\* the promise of s3Client.send(command) of getObject call t settles
SendSettles(t) ==
    /\ t \in TaskIds
    /\ GetObjectBody(t) \/ GetObjectNoBody(t) \/ GetObjectSendFails(t)

\* the client with a store that answers or fails every get-object request; the
\* consumer of a stream need not drain it
SpecLive == Init /\ [][Next]_vars /\ \A t \in 1..MaxOps : WF_vars(SendSettles(t))

NextResolver == \E tree \in Trees : resolveHtmlElement(tree)

\* the resolver alone: it shares no state with the client
SpecResolver == Init /\ [][NextResolver]_vars

(***************************************************************************)
(* Properties                                                              *)
(***************************************************************************)
IsGet(t) == tasks[t].kind = "getObject"

SameId(t, u) == tasks[t].key = tasks[u].key /\ tasks[t].ver = tasks[u].ver

StateOfTask(t) == getState(downloads, tasks[t].key, tasks[t].ver)

\* a get-object request is in flight from send until its body has been read
InFlight(t) == IsGet(t) /\ tasks[t].pc \in {"sent", "streaming"}

\* C1: single-flight: no two get-object requests for one (key, version id) are
\* in flight together.
C1_SingleFlight ==
    \A t, u \in TaskIds :
        (t # u /\ InFlight(t) /\ InFlight(u)) => ~SameId(t, u)

\* C2: a getObject call that found no record, got a body and drained its stream
\* took the record through QUEUED, RUNNING, COMPLETED, each once, in that order.
C2_QueuedRunningCompletedOnce ==
    \A t \in TaskIds :
        (IsGet(t) /\ tasks[t].fresh /\ tasks[t].pc = "ended")
            => hist[<<tasks[t].key, tasks[t].ver>>] = <<"QUEUED", "RUNNING", "COMPLETED">>

\* C3 as stated: a getObject call whose request failed or came back without a
\* body has failed to its caller, and the record is in ERROR.
C3_FailureLeavesError ==
    \A t \in TaskIds :
        (IsGet(t) /\ tasks[t].why \in {"nobody", "sendfail"})
            => (tasks[t].result = "threw" /\ StateOfTask(t) = "ERROR")

\* C3 amended: at the step where the request fails or comes back without a body
\* the caller gets a failure, and the record is in ERROR unless it had already
\* reached COMPLETED, in which case it stays COMPLETED.
C3_FailureLeavesErrorUnlessCompleted ==
    [][\A t \in TaskIds :
        (IsGet(t) /\ tasks[t].pc = "sent" /\ tasks'[t].pc # "sent" /\ tasks'[t].pc # "streaming")
            => /\ tasks'[t].result = "threw"
               /\ tasks'[t].pc = "threw"
               /\ getState(downloads', tasks[t].key, tasks[t].ver) =
                    (IF StateOfTask(t) = "COMPLETED" THEN "COMPLETED" ELSE "ERROR")]_vars

\* a call came back without a body on a record an earlier call had completed
C3_Witness ==
    \E t \in TaskIds :
        IsGet(t) /\ tasks[t].why = "nobody" /\ StateOfTask(t) = "COMPLETED"

\* C4: COMPLETED and ERROR are absorbing: no step changes the state of a record
\* that is COMPLETED or ERROR.
C4_TerminalAbsorbing ==
    [][\A id \in Ids :
        getState(downloads, id[1], id[2]) \in {"COMPLETED", "ERROR"}
            => getState(downloads', id[1], id[2]) = getState(downloads, id[1], id[2])]_vars

\* a stream was returned and drained (setRunningState, then setCompletedState)
\* on a record that was already in ERROR
C4_Witness ==
    \E t \in TaskIds : IsGet(t) /\ tasks[t].pc = "ended" /\ StateOfTask(t) = "ERROR"

\* C5: when draining a returned stream fails, the record is in ERROR.
C5_StreamFailureMarksError ==
    \A t \in TaskIds :
        (IsGet(t) /\ tasks[t].pc = "streamErr") => StateOfTask(t) = "ERROR"

IsOp(t) == tasks[t].kind \in {"getObject", "getLatest", "sign"}

IsCreate(t) == tasks[t].kind = "create"

\* no initializeS3Client call lies strictly between tasks t and u
NoInitBetween(t, u) == \A m \in TaskIds : (t < m /\ m < u) => ~IsCreate(m)

\* C6: after an initialize whose profile lookup yields no credentials, every
\* operation invoked after that call (and before any later initialize) fails
\* without a remote request, also when invoked before the lookup settled; and
\* once that initialize has finished, with no other initialize pending or later,
\* the owner is in its error state, the profile is cleared, the handle is null.
C6_NoCredentialsFailsFast ==
    \A t \in TaskIds :
        (IsCreate(t) /\ tasks[t].result = "nocreds")
            => /\ \A u \in TaskIds :
                    (u > t /\ IsOp(u) /\ NoInitBetween(t, u))
                        => (~tasks[u].sent /\ tasks[u].result = "threw")
               /\ (tasks[t].pc = "done" /\ \A m \in TaskIds : (IsCreate(m) /\ m # t) => m < t /\ tasks[m].pc = "done")
                    => (pluginState = "ERROR" /\ settings.profile = "" /\ s3Client = Null)

\* the task an invocation step appends
Invoked == tasks'[Len(tasks')]

\* C7: an operation invoked while the client has no connection handle fails at
\* once, sends no remote request, and leaves the download registry unchanged.
C7_NoHandleFailsFast ==
    [][(Len(tasks') = Len(tasks) + 1 /\ Invoked.kind \in {"getObject", "getLatest", "sign"}
            /\ s3Client \in {Undefined, Null})
        => /\ Invoked.result = "threw"
           /\ Invoked.pc = "threw"
           /\ ~Invoked.sent
           /\ downloads' = downloads]_vars

\* getObject was invoked before any initialize, and another operation after an
\* initialize that left the handle null
C7_Witness ==
    /\ \E t \in TaskIds : t = 1 /\ IsGet(t) /\ tasks[t].why = "precond"
    /\ s3Client = Null
    /\ \E t \in TaskIds : tasks[t].kind \in {"getLatest", "sign"} /\ tasks[t].why = "precond"

\* the version id getLatestObjectVersion has to return for a listing: that of
\* the first entry whose key is exactly the requested one, absent if none is
ExpectedLatest(versions, objectKey, result) ==
    \/ /\ \A i \in DOMAIN versions : versions[i].Key # objectKey
       /\ result = "absent"
    \/ \E i \in DOMAIN versions :
        /\ versions[i].Key = objectKey
        /\ \A j \in 1..(i - 1) : versions[j].Key # objectKey
        /\ result = versions[i].VersionId

\* C8: getLatestObjectVersion returns the version id of the first listed entry
\* whose key equals the requested key exactly, and absent when there is none.
C8_FirstExactMatch ==
    \A t \in TaskIds :
        (tasks[t].kind = "getLatest" /\ tasks[t].pc = "returned")
            => ExpectedLatest(tasks[t].resp.Versions, tasks[t].key, tasks[t].result)

\* a listing whose first entry only shares the prefix and whose second entry is
\* the requested key, and a listing with prefix matches only
C8_Witness ==
    /\ \E t \in TaskIds :
        /\ tasks[t].kind = "getLatest" /\ tasks[t].pc = "returned"
        /\ Len(tasks[t].resp.Versions) = 2
        /\ tasks[t].resp.Versions[1].Key # tasks[t].key
        /\ tasks[t].resp.Versions[2].Key = tasks[t].key
        /\ tasks[t].result = tasks[t].resp.Versions[2].VersionId
        /\ tasks[t].result # tasks[t].resp.Versions[1].VersionId
    /\ \E t \in TaskIds :
        /\ tasks[t].kind = "getLatest" /\ tasks[t].pc = "returned"
        /\ Len(tasks[t].resp.Versions) > 0
        /\ tasks[t].result = "absent"

\* C9: when the list call fails, getLatestObjectVersion fails to its caller at
\* that step (it returns neither a version nor absent), and no step of the
\* operation, from its invocation on, changes a download record.
C9_ListFailurePropagates ==
    [][/\ \A t \in TaskIds :
            (tasks[t].kind = "getLatest" /\ tasks[t].pc = "listing" /\ tasks'[t].why = "sendfail")
                => /\ tasks'[t].result = "threw"
                   /\ tasks'[t].pc = "threw"
                   /\ downloads' = downloads
       /\ (Len(tasks') = Len(tasks) + 1 /\ Invoked.kind = "getLatest")
            => downloads' = downloads]_vars

\* a list call failed while a download record was QUEUED
C9_Witness ==
    /\ \E t \in TaskIds : tasks[t].kind = "getLatest" /\ tasks[t].why = "sendfail"
    /\ \E i \in DOMAIN downloads : downloads[i].state = "QUEUED"

UniqueRecords(reg) ==
    \A i, j \in DOMAIN reg : Matches(reg[i], reg[j].key, reg[j].ver) => i = j

\* C10: the registry holds at most one record per (key, version id), and a
\* getObject call for an identity that already has a record leaves the registry
\* as it was when it registers.
C10_RegisterIsIdempotent ==
    [][/\ UniqueRecords(downloads')
       /\ (Len(tasks') = Len(tasks) + 1 /\ Invoked.kind = "getObject" /\ Invoked.sent
            /\ HasRecord(downloads, Invoked.key, Invoked.ver))
            => downloads' = downloads]_vars

\* a second getObject registered an identity whose record was RUNNING
C10_Witness ==
    \E t \in TaskIds :
        IsGet(t) /\ tasks[t].sent /\ ~tasks[t].fresh /\ tasks[t].pc = "sent"
            /\ StateOfTask(t) = "RUNNING"

\* C11: no step of getSignedUrlForObject, from its invocation to its result,
\* changes the download registry, and a signing failure reaches the caller as a
\* failure.
C11_SignLeavesRegistry ==
    [][/\ (Len(tasks') = Len(tasks) + 1 /\ Invoked.kind = "sign") => downloads' = downloads
       /\ \A t \in TaskIds :
            (tasks[t].kind = "sign" /\ tasks'[t] # tasks[t])
                => /\ downloads' = downloads
                   /\ tasks'[t].why = "sendfail" =>
                        (tasks'[t].result = "threw" /\ tasks'[t].pc = "threw")]_vars

\* a signing failed while a download record was QUEUED
C11_Witness ==
    /\ \E t \in TaskIds : tasks[t].kind = "sign" /\ tasks[t].why = "sendfail"
    /\ \E i \in DOMAIN downloads : downloads[i].state = "QUEUED"

\* the records of every identity but that of task t
OtherRecords(reg, t) ==
    [id \in Ids \ {<<tasks[t].key, tasks[t].ver>>} |-> getState(reg, id[1], id[2])]

\* C12: a step of a getObject call for one identity leaves the record of every
\* other identity as it was, and a call that awaits its response or whose
\* stream is being drained can take its next step whatever the other records are.
C12_IdentitiesIndependent ==
    [][/\ (Len(tasks') = Len(tasks) + 1 /\ Invoked.kind = "getObject")
            => \A id \in Ids :
                    (id # <<Invoked.key, Invoked.ver>>)
                        => getState(downloads', id[1], id[2]) = getState(downloads, id[1], id[2])
       /\ \A t \in TaskIds :
            /\ (IsGet(t) /\ tasks'[t] # tasks[t])
                    => OtherRecords(downloads', t) = OtherRecords(downloads, t)
            /\ (IsGet(t) /\ tasks[t].pc = "sent")
                    => (ENABLED GetObjectBody(t) /\ ENABLED GetObjectSendFails(t))
            /\ (IsGet(t) /\ tasks[t].pc = "streaming") => ENABLED StreamEnd(t)]_vars

\* a call for one identity failed while the record of another identity of the
\* same key was RUNNING, and that record is still RUNNING
C12_Witness ==
    \E t, u \in TaskIds :
        /\ IsGet(t) /\ IsGet(u) /\ tasks[t].key = tasks[u].key /\ tasks[t].ver # tasks[u].ver
        /\ tasks[t].pc = "threw" /\ tasks[t].sent /\ StateOfTask(t) = "ERROR"
        /\ tasks[u].pc = "streaming" /\ StateOfTask(u) = "RUNNING"


(***************************************************************************)
(* ImageResolver                                                           *)
(***************************************************************************)
MapNames == {"objectKeys", "signObjectKeys"}

\* the places where an element is held: map, entry, position in the entry
Places(el) ==
    {pl \in UNION {{<<m, i, p>> : p \in DOMAIN resolver[m][i].els} :
                     <<m, i>> \in UNION {{<<m, i>> : i \in DOMAIN resolver[m]} : m \in MapNames}} :
        resolver[pl[1]][pl[2]].els[pl[3]] = el}

\* the image elements of the latest tree
Elements == {<<resolver.calls, n>> : n \in 1..Len(resolver.tree)}

\* the keys a well-formed reference names
PlainKeys == {<<"k">>, <<"j">>}

\* C13: each image element of the tree is held at most once over the two maps; a
\* map has one entry per key; an entry lists its elements in document order; two
\* elements with the same reference are in the same entry; an element whose
\* reference is a marker, the delimiter and a key is held under that key in the
\* marker's map.
C13_EachElementOnce ==
    /\ \A el \in Elements : Cardinality(Places(el)) <= 1
    /\ \A m \in MapNames : \A i, j \in DOMAIN resolver[m] :
          resolver[m][i].key = resolver[m][j].key => i = j
    /\ \A m \in MapNames : \A i \in DOMAIN resolver[m] :
          \A p, q \in DOMAIN resolver[m][i].els :
             p < q => resolver[m][i].els[p][2] < resolver[m][i].els[q][2]
    /\ \A a, b \in Elements :
          resolver.tree[a[2]] = resolver.tree[b[2]]
             => {<<pl[1], pl[2]>> : pl \in Places(a)} = {<<pl[1], pl[2]>> : pl \in Places(b)}
    /\ \A el \in Elements : \A key \in PlainKeys :
          /\ resolver.tree[el[2]] = S3_LINK_PREFIX \o <<S3_LINK_SPLITTER>> \o key
                => \E pl \in Places(el) :
                      pl[1] = "objectKeys" /\ resolver.objectKeys[pl[2]].key = key
          /\ resolver.tree[el[2]] = S3_SIGNED_LINK_PREFIX \o <<S3_LINK_SPLITTER>> \o key
                => \E pl \in Places(el) :
                      pl[1] = "signObjectKeys" /\ resolver.signObjectKeys[pl[2]].key = key

\* two elements with the same direct reference, held in one entry
C13_Witness ==
    /\ Len(resolver.tree) = 2
    /\ resolver.tree[1] = resolver.tree[2]
    /\ \E i \in DOMAIN resolver.objectKeys :
          /\ resolver.objectKeys[i].key \in PlainKeys
          /\ resolver.objectKeys[i].els = <<<<resolver.calls, 1>>, <<resolver.calls, 2>>>>

\* C14: the maps hold elements of the latest tree only, and both are empty
\* after a call on a tree without image elements.
C14_NotCumulative ==
    /\ \A m \in MapNames : \A i \in DOMAIN resolver[m] :
          \A p \in DOMAIN resolver[m][i].els : resolver[m][i].els[p] \in Elements
    /\ (resolver.calls > 0 /\ Len(resolver.tree) = 0)
          => (resolver.objectKeys = <<>> /\ resolver.signObjectKeys = <<>>)

\* a tree without image elements resolved after a call that produced entries
C14_Witness ==
    /\ resolver.calls = 2
    /\ resolver.hadEntries
    /\ Len(resolver.tree) = 0
    /\ resolver.objectKeys = <<>>
    /\ resolver.signObjectKeys = <<>>

\* C15: every key of either map is a defined, non-empty string; an element
\* whose reference splits into fewer than two parts, or whose first part is
\* neither marker, is in neither map.
C15_KeysDefinedNonEmpty ==
    /\ \A m \in MapNames : \A i \in DOMAIN resolver[m] :
          resolver[m][i].key # UndefinedPart /\ resolver[m][i].key # <<>>
    /\ \A el \in Elements :
          (\/ Len(Split(resolver.tree[el[2]])) < 2
           \/ Split(resolver.tree[el[2]])[1] \notin {S3_LINK_PREFIX, S3_SIGNED_LINK_PREFIX})
             => Places(el) = {}


(***************************************************************************)
(* Client: handle and configuration                                        *)
(***************************************************************************)
\* the most recent initializeS3Client call
IsLatestCreate(t) ==
    /\ tasks[t].kind = "create"
    /\ \A u \in TaskIds : tasks[u].kind = "create" => u <= t

LookupsSettled == \A u \in TaskIds : tasks[u].kind = "create" => tasks[u].pc = "done"

\* C16: once every credential lookup has settled, the handle is the one the
\* most recent initializeS3Client call builds from its own configuration and
\* credentials (none if that call builds none), and a profile that call used
\* is still set.
C16_LatestConfigurationWins ==
    \A t \in TaskIds :
        (IsLatestCreate(t) /\ LookupsSettled)
            => /\ s3Client = IF tasks[t].result \in {"static", "creds"}
                             THEN [cfg |-> t, cred |-> t]
                             ELSE Null
               /\ tasks[t].result = "creds" => UsesProfile(settings)


(***************************************************************************)
(* Client.getObject: revision, outcome, progress                           *)
(***************************************************************************)
\* C17: the stream getObject(key, versionId) returns carries the bytes of
\* revision versionId, also when versionId is not the current revision of the key.
C17_StreamsRequestedRevision ==
    \A t \in TaskIds :
        (tasks[t].kind = "getObject" /\ tasks[t].result = "stream")
            => tasks[t].rev = tasks[t].ver


\* the state of the call's record after the step
StateAfter(t) == getState(downloads', tasks[t].key, tasks[t].ver)

\* the step moves the record of call t into state st
Performs(t, st) == StateOfTask(t) # st /\ StateAfter(t) = st

C19_NoRecordStaysQueued ==
    \A t \in 1..MaxOps :
        /\ (t \in TaskIds /\ IsGet(t) /\ tasks[t].pc = "sent")
              ~> (/\ t \in TaskIds
                  /\ tasks[t].result \in {"stream", "threw"}
                  /\ StateOfTask(t) # "QUEUED")
        /\ (t \in TaskIds /\ IsGet(t) /\ tasks[t].fresh /\ tasks[t].pc = "ended")
              ~> (t \in TaskIds /\ StateOfTask(t) = "COMPLETED")

====
